---- MODULE Spec2Model ----
(***************************************************************************)
(* The request handlers of blogicum/blog/views.py as a state machine over  *)
(* the stored tables (users, posts, comments), the clock, and the last     *)
(* request served together with its response.                              *)
(***************************************************************************)
EXTENDS Integers, FiniteSets, TLC

\* ---------------------------------------------------------------- bounds
MaxPosts == 1
MaxComments == 1

\* ------------------------------------------------- tables the views only read
\* request.user of a request without a session (AnonymousUser); it equals no
\* stored user.
Anonymous == 0
UserIds == {1, 2}
Requesters == UserIds \cup {Anonymous}
Usernames == {"ann", "bob", "cy"}
Methods == {"GET", "POST"}

\* Category rows (slug -> is_published) and Location rows; no view writes them.
category_table ==
    [slug \in {"travel", "food", "draft"} |-> [is_published |-> slug # "draft"]]
location_table ==
    [loc \in {"park", "closed"} |-> [is_published |-> loc = "park"]]
CategorySlugs == DOMAIN category_table
LocationIds == DOMAIN location_table
RouteSlugs == CategorySlugs \cup {"missing"}
\* Clock readings: a pub_date is either reached at the start or only later.
Times == {0, 1}
\* The post ids a route names: every id a post can get, and at least two, so
\* that a route can name another post than the one a comment belongs to.
RoutePostIds == 1..(IF MaxPosts >= 2 THEN MaxPosts ELSE 2)
RouteCommentIds == 1..MaxComments

\* ------------------------------------------------------------------ forms
\* PostForm: every Post field but the author, which form_valid sets.
PostForms ==
    [is_published : BOOLEAN, category : CategorySlugs,
     location : LocationIds, pub_date : Times]
\* Plain submissions: a past-dated post of a public category and place,
\* published or not.
PlainForms ==
    {f \in PostForms :
        f.category = "travel" /\ f.location = "park" /\ f.pub_date = 0}
\* A new comment's submission: the text, and whatever author and post values
\* the body carries besides. CommentTexts are the texts an edit submits.
CommentTexts == {"hi", "edited"}
CommentForms ==
    [text : {"hi"}, author : UserIds, post : RoutePostIds]
NoForm == [text |-> "", author |-> 0, post |-> 0]
\* EditProfileForm.Meta.fields
EditProfileForm ==
    [username : Usernames, email : {"old", "new"},
     first_name : {"old", "new"}, last_name : {"old", "new"}]

VARIABLES users, posts, comments, now, next_post_id, next_comment_id,
          request, response

vars == <<users, posts, comments, now, next_post_id, next_comment_id,
          request, response>>
db == <<users, posts, comments, next_post_id, next_comment_id>>

\* -------------------------------------------------------------- responses
Request(view, user, method, post_id, comment_id, name, form) ==
    [view |-> view, user |-> user, method |-> method, post_id |-> post_id,
     comment_id |-> comment_id, name |-> name, form |-> form]
Render(object, page) ==
    [status |-> 200, redirect |-> "", redirect_post |-> 0,
     redirect_user |-> "", object |-> object, posts |-> page]
Http404 ==
    [status |-> 404, redirect |-> "", redirect_post |-> 0,
     redirect_user |-> "", object |-> 0, posts |-> {}]
Redirect(name, post_id, username) ==
    [status |-> 302, redirect |-> name, redirect_post |-> post_id,
     redirect_user |-> username, object |-> 0, posts |-> {}]
redirect_to_login == Redirect("login", 0, "")

\* ------------------------------------------------------------------- Init
InitUsers ==
    [u \in UserIds |->
        [username |-> IF u = 1 THEN "ann" ELSE "bob", email |-> "old",
         first_name |-> "old", last_name |-> "old"]]

Init ==
    /\ users = InitUsers
    /\ posts = << >>
    /\ comments = << >>
    /\ now = 0
    /\ next_post_id = 1
    /\ next_comment_id = 1
    /\ request = Request("none", Anonymous, "GET", 0, 0, "", NoForm)
    /\ response = Render(0, {})

\* timezone.now() moves on between requests.
Tick ==
    /\ now + 1 \in Times
    /\ now' = now + 1
    /\ request' = Request("none", Anonymous, "GET", 0, 0, "", NoForm)
    /\ response' = Render(0, {})
    /\ UNCHANGED db

\* ----------------------------------------------------------- query helpers
\* get_object_or_404(User, username=...): the user id, or Anonymous for Http404
\* (no stored user has that id).
get_user_by_username(username) ==
    IF \E u \in UserIds : users[u].username = username
    THEN CHOOSE u \in UserIds : users[u].username = username
    ELSE Anonymous

\* Deleting a post takes the comments that belong to it.
comments_after_post_delete(post_id) ==
    [c \in {x \in DOMAIN comments : comments[x].post # post_id} |-> comments[c]]

without(table, key) == [k \in DOMAIN table \ {key} |-> table[k]]

\* --------------------------------------------------------- read-only views
\* The listing with the location filter left out.
PostListView_get_queryset_any_location ==
    {p \in DOMAIN posts :
        /\ posts[p].is_published
        /\ category_table[posts[p].category].is_published
        /\ posts[p].pub_date <= now}

PostListView_get_queryset ==
    {p \in DOMAIN posts :
        /\ posts[p].is_published
        /\ category_table[posts[p].category].is_published
        /\ location_table[posts[p].location].is_published
        /\ posts[p].pub_date <= now}

PostList(user) ==
    /\ request' = Request("post_list", user, "GET", 0, 0, "", NoForm)
    /\ response' = Render(0, PostListView_get_queryset)
    /\ UNCHANGED <<db, now>>

\* The detail lookup with the author's exemption left out.
PostDetailView_get_object_flags_only(post_id, user) ==
    IF post_id \notin DOMAIN posts THEN Http404
    ELSE IF /\ posts[post_id].is_published
            /\ category_table[posts[post_id].category].is_published
            /\ location_table[posts[post_id].location].is_published
         THEN Render(post_id, {})
         ELSE Http404

PostDetailView_get_object(post_id, user) ==
    IF post_id \notin DOMAIN posts THEN Http404
    ELSE IF \/ posts[post_id].author = user
            \/ /\ posts[post_id].is_published
               /\ category_table[posts[post_id].category].is_published
               /\ location_table[posts[post_id].location].is_published
         THEN Render(post_id, {})
         ELSE Http404

PostDetail(user, post_id) ==
    /\ request' = Request("post_detail", user, "GET", post_id, 0, "", NoForm)
    /\ response' = PostDetailView_get_object(post_id, user)
    /\ UNCHANGED <<db, now>>

CategoryPostsListView_get_category(slug) ==
    slug \in DOMAIN category_table /\ category_table[slug].is_published

CategoryPostsListView_get_queryset(slug) ==
    {p \in DOMAIN posts :
        /\ posts[p].category = slug
        /\ posts[p].is_published
        /\ posts[p].pub_date <= now
        /\ category_table[posts[p].category].is_published}

CategoryPostsList(slug) ==
    /\ request' = Request("category_posts", Anonymous, "GET", 0, 0, slug, NoForm)
    /\ response' = IF CategoryPostsListView_get_category(slug)
                   THEN Render(0, CategoryPostsListView_get_queryset(slug))
                   ELSE Http404
    /\ UNCHANGED <<db, now>>

\* The profile page filtering other viewers' pages by the published flag too.
UserDetailView_get_queryset_published_only(author, user) ==
    IF user # author
    THEN {p \in DOMAIN posts :
            /\ posts[p].author = author
            /\ posts[p].pub_date <= now
            /\ posts[p].is_published}
    ELSE {p \in DOMAIN posts : posts[p].author = author}

UserDetailView_get_queryset(author, user) ==
    IF user # author
    THEN {p \in DOMAIN posts :
            posts[p].author = author /\ posts[p].pub_date <= now}
    ELSE {p \in DOMAIN posts : posts[p].author = author}

UserDetail(user, username) ==
    /\ request' = Request("profile", user, "GET", 0, 0, username, NoForm)
    /\ response' =
          LET author == get_user_by_username(username) IN
          IF author = Anonymous THEN Http404
          ELSE Render(0, UserDetailView_get_queryset(author, user))
    /\ UNCHANGED <<db, now>>

\* ------------------------------------------------------------------ posts
PostCreate(user, method, forms) ==
    /\ next_post_id <= MaxPosts
    /\ request' = Request("post_create", user, method, 0, 0, "", NoForm)
    /\ IF user = Anonymous
       THEN /\ response' = redirect_to_login
            /\ UNCHANGED <<posts, next_post_id>>
       ELSE IF method = "POST"
       THEN \E valid \in BOOLEAN :
              IF valid
              THEN \E form \in forms :
                   /\ posts' = (next_post_id :> [author |-> user,
                                    is_published |-> form.is_published,
                                    category |-> form.category,
                                    location |-> form.location,
                                    pub_date |-> form.pub_date]) @@ posts
                   /\ next_post_id' = next_post_id + 1
                   /\ response' = Redirect("profile", 0, users[user].username)
              ELSE /\ response' = Render(0, {})
                   /\ UNCHANGED <<posts, next_post_id>>
       ELSE /\ response' = Render(0, {})
            /\ UNCHANGED <<posts, next_post_id>>
    /\ UNCHANGED <<users, comments, next_comment_id, now>>

\* AuthorPostMixin.dispatch: whether the request is turned away to the
\* post's detail page.
AuthorPostMixin_not_author(post, user) == post.author # user

PostEdit(user, post_id, method, forms) ==
    /\ request' = Request("post_edit", user, method, post_id, 0, "", NoForm)
    /\ IF post_id \notin DOMAIN posts
       THEN response' = Http404 /\ posts' = posts
       ELSE IF AuthorPostMixin_not_author(posts[post_id], user)
       THEN response' = Redirect("post_detail", post_id, "") /\ posts' = posts
       ELSE IF user = Anonymous
       THEN response' = redirect_to_login /\ posts' = posts
       ELSE IF method = "POST"
       THEN \E valid \in BOOLEAN :
              IF valid
              THEN \E form \in forms :
                   /\ posts' = [posts EXCEPT ![post_id] =
                                   [author |-> @.author,
                                    is_published |-> form.is_published,
                                    category |-> form.category,
                                    location |-> form.location,
                                    pub_date |-> form.pub_date]]
                   /\ response' = Redirect("post_detail", post_id, "")
              ELSE response' = Render(post_id, {}) /\ posts' = posts
       ELSE response' = Render(post_id, {}) /\ posts' = posts
    /\ UNCHANGED <<users, comments, next_post_id, next_comment_id, now>>

PostDelete(user, post_id, method) ==
    /\ request' = Request("post_delete", user, method, post_id, 0, "", NoForm)
    /\ IF post_id \notin DOMAIN posts
       THEN response' = Http404 /\ UNCHANGED <<posts, comments>>
       ELSE IF AuthorPostMixin_not_author(posts[post_id], user)
       THEN /\ response' = Redirect("post_detail", post_id, "")
            /\ UNCHANGED <<posts, comments>>
       ELSE IF user = Anonymous
       THEN response' = redirect_to_login /\ UNCHANGED <<posts, comments>>
       ELSE IF method = "POST"
       THEN /\ posts' = without(posts, post_id)
            /\ comments' = comments_after_post_delete(post_id)
            /\ response' =
                  Redirect("profile", 0, users[posts[post_id].author].username)
       ELSE response' = Render(post_id, {}) /\ UNCHANGED <<posts, comments>>
    /\ UNCHANGED <<users, next_post_id, next_comment_id, now>>

\* --------------------------------------------------------------- comments
\* form_valid without the assignment of request.user: the author the body
\* names is kept.
CommentCreateView_form_valid_keeps_author(form, post_id, user) ==
    [post |-> post_id, author |-> form.author, text |-> form.text]

\* CommentCreateView.form_valid: the instance that is saved.
CommentCreateView_form_valid(form, post_id, user) ==
    [post |-> post_id, author |-> user, text |-> form.text]

CommentCreate(user, post_id, method) ==
    /\ next_comment_id <= MaxComments
    /\ IF user = Anonymous
       THEN /\ request' = Request("comment_create", user, method, post_id, 0,
                                  "", NoForm)
            /\ response' = redirect_to_login
            /\ UNCHANGED <<comments, next_comment_id>>
       ELSE IF method = "POST"
       THEN \E valid \in BOOLEAN :
              IF ~valid
              THEN /\ request' = Request("comment_create", user, method,
                                         post_id, 0, "", NoForm)
                   /\ response' = Render(0, {})
                   /\ UNCHANGED <<comments, next_comment_id>>
              ELSE \E form \in CommentForms :
                   /\ request' = Request("comment_create", user, method,
                                         post_id, 0, "", form)
                   /\ IF post_id \notin DOMAIN posts
                      THEN /\ response' = Http404
                           /\ UNCHANGED <<comments, next_comment_id>>
                      ELSE /\ comments' =
                                 (next_comment_id :>
                                    CommentCreateView_form_valid(
                                        form, post_id, user))
                                 @@ comments
                           /\ next_comment_id' = next_comment_id + 1
                           /\ response' = Redirect("post_detail", post_id, "")
       ELSE /\ request' = Request("comment_create", user, method, post_id, 0,
                                  "", NoForm)
            /\ response' = Render(0, {})
            /\ UNCHANGED <<comments, next_comment_id>>
    /\ UNCHANGED <<users, posts, next_post_id, now>>

\* The comment guard comparing the requester with the author of the post.
AuthorCommentMixin_not_post_author(comment, user) ==
    posts[comment.post].author # user

\* AuthorCommentMixin.dispatch: whether the request is turned away to the
\* detail page of the comment's post.
AuthorCommentMixin_not_author(comment, user) == comment.author # user

\* get_object of the two comment views: TRUE when a comment is found.
CommentEditView_get_object(post_id, comment_id) ==
    comment_id \in DOMAIN comments

CommentDeleteView_get_object(post_id, comment_id) ==
    comment_id \in DOMAIN comments /\ comments[comment_id].post = post_id

CommentEdit(user, post_id, comment_id, method) ==
    /\ request' = Request("comment_edit", user, method, post_id, comment_id,
                          "", NoForm)
    /\ IF ~CommentEditView_get_object(post_id, comment_id)
       THEN response' = Http404 /\ comments' = comments
       ELSE IF AuthorCommentMixin_not_author(comments[comment_id], user)
       THEN /\ response' =
                  Redirect("post_detail", comments[comment_id].post, "")
            /\ comments' = comments
       ELSE IF user = Anonymous
       THEN response' = redirect_to_login /\ comments' = comments
       ELSE IF method = "POST"
       THEN \E valid \in BOOLEAN :
              IF valid
              THEN \E text \in CommentTexts :
                   /\ comments' = [comments EXCEPT ![comment_id].text = text]
                   /\ response' = Redirect("post_detail", post_id, "")
              ELSE response' = Render(comment_id, {}) /\ comments' = comments
       ELSE response' = Render(comment_id, {}) /\ comments' = comments
    /\ UNCHANGED <<users, posts, next_post_id, next_comment_id, now>>

CommentDelete(user, post_id, comment_id, method) ==
    /\ request' = Request("comment_delete", user, method, post_id, comment_id,
                          "", NoForm)
    /\ IF ~CommentDeleteView_get_object(post_id, comment_id)
       THEN response' = Http404 /\ comments' = comments
       ELSE IF AuthorCommentMixin_not_author(comments[comment_id], user)
       THEN /\ response' =
                  Redirect("post_detail", comments[comment_id].post, "")
            /\ comments' = comments
       ELSE IF user = Anonymous
       THEN response' = redirect_to_login /\ comments' = comments
       ELSE IF method = "POST"
       THEN /\ comments' = without(comments, comment_id)
            /\ response' = Redirect("post_detail", post_id, "")
       ELSE response' = Render(comment_id, {}) /\ comments' = comments
    /\ UNCHANGED <<users, posts, next_post_id, next_comment_id, now>>

\* ---------------------------------------------------------------- profile
\* get_object looking the target up by the username the request names.
EditProfileView_get_object_by_name(user, name) ==
    get_user_by_username(name)

\* EditProfileView.get_object; `name` is whatever username the request names.
EditProfileView_get_object(user, name) ==
    get_user_by_username(users[user].username)

EditProfile(user, method, name) ==
    /\ request' = Request("edit_profile", user, method, 0, 0, name, NoForm)
    /\ IF user = Anonymous
       THEN response' = redirect_to_login /\ users' = users
       ELSE IF method = "POST"
       THEN \E valid \in BOOLEAN :
              LET target == EditProfileView_get_object(user, name) IN
              IF valid
              THEN \E form \in EditProfileForm :
                   IF \A other \in UserIds \ {target} :
                         users[other].username # form.username
                   THEN /\ users' = [users EXCEPT ![target] = form]
                        /\ response' = Redirect("profile", 0, form.username)
                   ELSE response' = Render(0, {}) /\ users' = users
              ELSE response' = Render(0, {}) /\ users' = users
       ELSE response' = Render(0, {}) /\ users' = users
    /\ UNCHANGED <<posts, comments, next_post_id, next_comment_id, now>>

\* --------------------------------------------------------- specifications
NextPosts ==
    \/ Tick
    \/ \E user \in Requesters : PostList(user)
    \/ \E user \in Requesters, post_id \in RoutePostIds :
          PostDetail(user, post_id)
    \/ \E slug \in RouteSlugs : CategoryPostsList(slug)
    \/ \E user \in Requesters, username \in Usernames :
          UserDetail(user, username)
    \/ \E user \in Requesters, method \in Methods :
          PostCreate(user, method, PostForms)
    \/ \E user \in Requesters, post_id \in RoutePostIds, method \in Methods :
          PostDelete(user, post_id, method)

NextComments ==
    \/ \E user \in Requesters, method \in Methods :
          PostCreate(user, method, {f \in PlainForms : f.is_published})
    \/ \E user \in Requesters, post_id \in RoutePostIds, method \in Methods :
          PostEdit(user, post_id, method, PlainForms)
    \/ \E user \in Requesters, post_id \in RoutePostIds, method \in Methods :
          PostDelete(user, post_id, method)
    \/ \E user \in Requesters, post_id \in RoutePostIds, method \in Methods :
          CommentCreate(user, post_id, method)
    \/ \E user \in Requesters, post_id \in RoutePostIds,
          comment_id \in RouteCommentIds, method \in Methods :
          CommentEdit(user, post_id, comment_id, method)
    \/ \E user \in Requesters, post_id \in RoutePostIds,
          comment_id \in RouteCommentIds, method \in Methods :
          CommentDelete(user, post_id, comment_id, method)

NextProfile ==
    \/ \E user \in Requesters, method \in Methods, name \in Usernames :
          EditProfile(user, method, name)
    \/ \E user \in Requesters, username \in Usernames :
          UserDetail(user, username)

Next == NextPosts \/ NextComments \/ NextProfile

\* Post visibility: the listings, the detail page and the post handlers.
SpecPosts == Init /\ [][NextPosts]_vars
\* Comment threads: the post and comment handlers over plain posts.
SpecComments == Init /\ [][NextComments]_vars
\* Profiles: the profile edit and the profile page.
SpecProfile == Init /\ [][NextProfile]_vars
Spec == Init /\ [][Next]_vars

\* ------------------------------------------------------------ properties
\* The visibility predicate of the data model: the post's own flag, its
\* category's and its location's are set and its pub_date is not in the future.
PubliclyVisible(p) ==
    /\ posts[p].is_published
    /\ category_table[posts[p].category].is_published
    /\ location_table[posts[p].location].is_published
    /\ posts[p].pub_date <= now

PostViews == {"post_edit", "post_delete"}
CommentViews == {"comment_edit", "comment_delete"}

\* C1: for every viewer, the public listing holds exactly the stored posts
\* that are publicly visible; an author's hidden post is not added and a
\* visible post is not dropped.
C1_PublicListingIffVisible ==
    request.view = "post_list" =>
        /\ response.status = 200
        /\ response.posts = {p \in DOMAIN posts : PubliclyVisible(p)}

\* The author of a future-dated, otherwise public post asked for the listing
\* and did not get that post.
C1_Witness ==
    /\ request.view = "post_list"
    /\ \E p \in DOMAIN posts :
          /\ posts[p].author = request.user
          /\ posts[p].is_published
          /\ category_table[posts[p].category].is_published
          /\ location_table[posts[p].location].is_published
          /\ posts[p].pub_date > now
          /\ p \notin response.posts

\* C2: the detail request of a viewer who is not the author, for a post that
\* is not publicly visible (a flag unset or a future pub_date), ends as the
\* request for an unknown identifier does: not found.
C2_HiddenPostNotFound ==
    ( /\ request.view = "post_detail"
      /\ request.post_id \in DOMAIN posts
      /\ posts[request.post_id].author # request.user
      /\ ~PubliclyVisible(request.post_id) )
    => response = Http404

\* C3: the detail request of a post's author returns the post whatever its
\* flags and pub_date are.
C3_AuthorSeesOwnPost ==
    ( /\ request.view = "post_detail"
      /\ request.post_id \in DOMAIN posts
      /\ posts[request.post_id].author = request.user )
    => response = Render(request.post_id, {})

\* An author was served their own unpublished, future-dated post of an
\* unpublished category and location.
C3_Witness ==
    /\ request.view = "post_detail"
    /\ request.post_id \in DOMAIN posts
    /\ posts[request.post_id].author = request.user
    /\ ~posts[request.post_id].is_published
    /\ ~category_table[posts[request.post_id].category].is_published
    /\ ~location_table[posts[request.post_id].location].is_published
    /\ posts[request.post_id].pub_date > now
    /\ response.status = 200

\* C4: a comment the creation endpoint stores has the requester as author and
\* the route's post as post, whatever the body carries; a request without a
\* session, or for a post id that matches no post, stores nothing; stored
\* comments are left as they were.
C4_CommentBoundToRequesterAndRoute ==
    [][ request'.view = "comment_create" =>
          /\ \A c \in DOMAIN comments :
                c \in DOMAIN comments' /\ comments'[c] = comments[c]
          /\ \A c \in DOMAIN comments' \ DOMAIN comments :
                /\ request'.user \in UserIds
                /\ request'.post_id \in DOMAIN posts
                /\ comments'[c].author = request'.user
                /\ comments'[c].post = request'.post_id
          /\ (request'.user = Anonymous \/ request'.post_id \notin DOMAIN posts)
                => comments' = comments
      ]_vars

\* A comment was stored from a body naming another author and another post.
C4_Witness ==
    /\ request.view = "comment_create"
    /\ response = Redirect("post_detail", request.post_id, "")
    /\ request.form.author # request.user
    /\ request.form.post # request.post_id
    /\ \E c \in DOMAIN comments :
          /\ comments[c].author = request.user
          /\ comments[c].post = request.post_id

\* The step is an edit or delete request for a stored post by someone who is
\* not its author.
NonOwnerPostRequest ==
    /\ request'.view \in PostViews
    /\ request'.post_id \in DOMAIN posts
    /\ posts[request'.post_id].author # request'.user

\* The step is an edit or delete request for a stored comment by someone who
\* is not its author.
NonOwnerCommentRequest ==
    /\ request'.view \in CommentViews
    /\ request'.comment_id \in DOMAIN comments
    /\ comments[request'.comment_id].author # request'.user

PostTouched(p) == p \notin DOMAIN posts' \/ posts'[p] # posts[p]
CommentTouched(c) == c \notin DOMAIN comments' \/ comments'[c] # comments[c]

\* C5 as stated: an edit or delete request by a non-author is answered with
\* a redirect to the detail page of the post concerned and changes nothing;
\* a post or comment is modified or deleted only by a request of its author.
C5_NonOwnerRedirectedNoMutation ==
    [][ /\ NonOwnerPostRequest =>
              /\ response' = Redirect("post_detail", request'.post_id, "")
              /\ posts' = posts /\ comments' = comments
        /\ NonOwnerCommentRequest =>
              /\ response' = Redirect("post_detail",
                                      comments[request'.comment_id].post, "")
              /\ posts' = posts /\ comments' = comments
        /\ \A p \in DOMAIN posts :
              PostTouched(p) => request'.user = posts[p].author
        /\ \A c \in DOMAIN comments :
              CommentTouched(c) => request'.user = comments[c].author
      ]_vars

\* C5 amended: an edit or delete request by a non-author changes nothing and
\* is answered with a redirect to the detail page of the post concerned,
\* except that a comment delete whose route post id differs from the
\* comment's post ends in not found; a post is modified or deleted only by a
\* request of its author; a comment is modified or deleted only by a request
\* of its author, or removed with its post when the post's author deletes
\* that post.
C5_NonOwnerNoMutation ==
    [][ /\ NonOwnerPostRequest =>
              /\ response' = Redirect("post_detail", request'.post_id, "")
              /\ posts' = posts /\ comments' = comments
        /\ NonOwnerCommentRequest =>
              /\ response' =
                    IF /\ request'.view = "comment_delete"
                       /\ comments[request'.comment_id].post # request'.post_id
                    THEN Http404
                    ELSE Redirect("post_detail",
                                  comments[request'.comment_id].post, "")
              /\ posts' = posts /\ comments' = comments
        /\ \A p \in DOMAIN posts :
              PostTouched(p) => request'.user = posts[p].author
        /\ \A c \in DOMAIN comments :
              CommentTouched(c) =>
                 \/ request'.user = comments[c].author
                 \/ /\ request'.view = "post_delete"
                    /\ request'.post_id = comments[c].post
                    /\ request'.user = posts[comments[c].post].author
                    /\ c \notin DOMAIN comments'
      ]_vars

\* Another user posted an edit of a comment under a route naming a different
\* post, and was sent to the detail page of the comment's own post.
C5_Witness ==
    /\ request.view = "comment_edit"
    /\ request.method = "POST"
    /\ request.user \in UserIds
    /\ request.comment_id \in DOMAIN comments
    /\ comments[request.comment_id].author # request.user
    /\ comments[request.comment_id].post # request.post_id
    /\ response = Redirect("post_detail", comments[request.comment_id].post, "")

\* C6: an edit or delete request for a stored comment under a route whose
\* post id is not the comment's post ends in not found and leaves the
\* comment as it is, for every requester, on the edit endpoint as on the
\* delete endpoint.
C6_RouteMismatchNotFound ==
    [][ ( /\ request'.view \in CommentViews
          /\ request'.comment_id \in DOMAIN comments
          /\ comments[request'.comment_id].post # request'.post_id )
        => response' = Http404 /\ comments' = comments
      ]_vars

\* C7: an edit or delete request for a stored post or comment without a
\* session is answered with the redirect to login and changes nothing.
C7_AnonymousSentToLogin ==
    [][ ( /\ request'.user = Anonymous
          /\ \/ request'.view \in PostViews
                /\ request'.post_id \in DOMAIN posts
             \/ request'.view \in CommentViews
                /\ request'.comment_id \in DOMAIN comments )
        => /\ response' = redirect_to_login
           /\ posts' = posts /\ comments' = comments
      ]_vars

\* C8: the listing of a published category K holds exactly the posts of K
\* that are publicly visible.
C8_CategoryListingIffVisible ==
    ( /\ request.view = "category_posts"
      /\ request.name \in CategorySlugs
      /\ category_table[request.name].is_published )
    => /\ response.status = 200
       /\ response.posts =
             {p \in DOMAIN posts :
                 posts[p].category = request.name /\ PubliclyVisible(p)}

\* C9: the profile page of user A holds exactly A's posts for A, and exactly
\* A's posts with pub_date <= now for anyone else; no published flag hides a
\* post and no other author's post is shown.
C9_ProfileListing ==
    \A a \in UserIds :
       (request.view = "profile" /\ request.name = users[a].username) =>
          /\ response.status = 200
          /\ response.posts =
                IF request.user = a
                THEN {p \in DOMAIN posts : posts[p].author = a}
                ELSE {p \in DOMAIN posts :
                         posts[p].author = a /\ posts[p].pub_date <= now}

\* A visitor without a session was shown a past-dated post whose own flag,
\* category and location are all unpublished.
C9_Witness ==
    /\ request.view = "profile"
    /\ request.user = Anonymous
    /\ \E p \in response.posts :
          /\ p \in DOMAIN posts
          /\ users[posts[p].author].username = request.name
          /\ ~posts[p].is_published
          /\ ~category_table[posts[p].category].is_published
          /\ ~location_table[posts[p].location].is_published

\* C10: a profile edit touches no record but the requester's own, whatever
\* username the request names; without a session it redirects to login and
\* changes nothing; and a user's record changes only in a profile edit of
\* that user.
C10_ProfileEditTargetsRequester ==
    [][ /\ request'.view = "edit_profile" =>
              /\ \A u \in UserIds \ {request'.user} : users'[u] = users[u]
              /\ request'.user = Anonymous =>
                    response' = redirect_to_login /\ users' = users
        /\ \A u \in UserIds :
              users'[u] # users[u] =>
                 request'.view = "edit_profile" /\ request'.user = u
      ]_vars

\* A user changed their own record with a request naming another user, whose
\* record is as it was at the start.
C10_Witness ==
    /\ request.view = "edit_profile"
    /\ request.user \in UserIds
    /\ response.status = 302
    /\ users[request.user] # InitUsers[request.user]
    /\ \E other \in UserIds \ {request.user} :
          /\ request.name = users[other].username
          /\ users[other] = InitUsers[other]

====
